---- MODULE Spec2Model ----
(***************************************************************************)
(* A state-machine model of scripts/fetch_tuya.py: a cron-style batch job  *)
(* that acquires one access token, polls three fixed devices, normalises   *)
(* the temperature / humidity values and appends them to a daily CSV file, *)
(* then rewrites a manifest of the CSV files.                              *)
(*                                                                         *)
(* One run of the process is a sequence of steps, one per interaction with *)
(* the outside world (clock, network, filesystem).  The wall clock and the *)
(* answers of the network are the environment; they are drawn with \E.     *)
(* Network calls can raise (the code has no handler around requests.get),  *)
(* the storage POST can raise (caught, 142-143) and the manifest rewrite   *)
(* can raise (caught, 230-231).  The output directory itself is taken to   *)
(* be usable: makedirs and the append to the daily file do not raise, so   *)
(* the `except` branch of ensure_dir (148-149), which only prints, is not  *)
(* taken.                                                                  *)
(***************************************************************************)
EXTENDS Integers, Sequences, FiniteSets, TLC

\* ------------------------------------------------------------------ bounds
MaxRuns == 2      \* processes started one after the other
MaxDay  == 2      \* calendar days the wall clock can reach
MaxLen  == 2      \* status points in one device answer (extractor inputs)

\* --------------------------------------------------------------- constants
None == "None"

DEVICE_IDS ==
  << "bf7ecfc010164c849dwpqp", "bf58e5674b50680432umav", "bfefd09a22241b31b10cpo" >>

TempCodes == {"temp_current", "temperature", "va_temperature"}
HumCodes  == {"humidity_value", "humidity", "va_humidity"}

\* ------------------------------------------------------------ JSON values
\* A JSON scalar: a number v, null, or a string.  A normalised number is
\* v/d with d = 10 after "value / 10.0" and d = 1 when the value is kept.
Num(n)  == [t |-> "num", v |-> n, d |-> 1]
Null    == [t |-> "null", v |-> 0, d |-> 1]
Str     == [t |-> "str", v |-> 0, d |-> 1]

Abs(n) == IF n < 0 THEN -n ELSE n

\* line 121-125: temp = value / 10.0 if abs(value) > 50 else value; else temp = value
ScaleTempNoAbs(value) ==
  IF value.t = "num"
    THEN IF value.v > 50 THEN [value EXCEPT !.d = 10] ELSE value
    ELSE value

ScaleTemp(value) ==
  IF value.t = "num"
    THEN IF Abs(value.v) > 50 THEN [value EXCEPT !.d = 10] ELSE value
    ELSE value

\* line 128-132: humidity = value / 10.0 if value > 100 else value; else humidity = value
ScaleHumidity(value) ==
  IF value.t = "num"
    THEN IF value.v > 100 THEN [value EXCEPT !.d = 10] ELSE value
    ELSE value

\* lines 115-132: the loop over the points, carrying (temp, humidity)
RECURSIVE ExtractLoop(_, _, _)
ExtractLoop(points, temp, humidity) ==
  IF points = << >> THEN << temp, humidity >>
  ELSE LET dp == Head(points) IN
       IF dp.code \in TempCodes
         THEN ExtractLoop(Tail(points), ScaleTemp(dp.value), humidity)
       ELSE IF dp.code \in HumCodes
         THEN ExtractLoop(Tail(points), temp, ScaleHumidity(dp.value))
       ELSE ExtractLoop(Tail(points), temp, humidity)

\* lines 110-134
extract_temp_humidity(status_result) == ExtractLoop(status_result, Null, Null)


\* ------------------------------------------------------------- API client
\* line 58 and 70: self.token or ""
TokenOrEmptyAlways(tok) == ""

TokenOrEmpty(tok) == IF tok = None \/ tok = "" THEN "" ELSE tok

\* lines 43-71: the headers of one request.  The HMAC is kept as the tuple of
\* what is signed (access id, token-or-empty, method, path); the millisecond
\* clock value t is left out.
SignRequest(access_id, tok, method, path) ==
  [ client_id    |-> access_id,
    sign         |-> << access_id, TokenOrEmpty(tok), method, path >>,
    sign_method  |-> "HMAC-SHA256",
    access_token |-> TokenOrEmpty(tok) ]

TokenPath == << "/v1.0/token?grant_type=1" >>
StatusPath(device_id) == << "/v1.0/devices/", device_id, "/status" >>

\* the access token the vendor issues
Tokens == {"3f1c9a7e-access"}

\* What the token endpoint can answer: the transport raises, the body is not
\* JSON, or a JSON object with or without success / result.access_token.
TokenResponses ==
  { [kind |-> "raise",   success |-> FALSE, has_token |-> FALSE, access_token |-> ""],
    [kind |-> "nonjson", success |-> FALSE, has_token |-> FALSE, access_token |-> ""],
    [kind |-> "json",    success |-> FALSE, has_token |-> FALSE, access_token |-> ""],
    [kind |-> "json",    success |-> TRUE,  has_token |-> FALSE, access_token |-> ""] }
  \cup { [kind |-> "json", success |-> TRUE, has_token |-> TRUE, access_token |-> t] :
           t \in Tokens }

NoResponse == [kind |-> "none", success |-> FALSE, has_token |-> FALSE, access_token |-> ""]

\* lines 73-94: what connect() does with the answer: its return value (or
\* that it raised) and the token field afterwards.
connect(tok, resp) ==
  CASE resp.kind = "raise"   -> [ret |-> "raised", token |-> tok]     \* 78: requests.get raises
    [] resp.kind = "nonjson" -> [ret |-> "False", token |-> tok]      \* 86-88
    [] resp.kind = "json" /\ resp.success /\ resp.has_token
                             -> [ret |-> "True", token |-> resp.access_token]  \* 90-92
    [] resp.kind = "json" /\ resp.success /\ ~resp.has_token
                             -> [ret |-> "raised", token |-> tok]     \* 91: KeyError
    [] OTHER                 -> [ret |-> "False", token |-> tok]      \* 93-94

\* lines 96-108: what get() returns for an answer of the status endpoint
get(resp) ==
  CASE resp.kind = "raise"   -> [raised |-> TRUE,  success |-> FALSE, result |-> << >>]
    [] resp.kind = "nonjson" -> [raised |-> FALSE, success |-> FALSE, result |-> << >>]
    [] OTHER                 -> [raised |-> FALSE, success |-> resp.success,
                                 result |-> resp.result]

\* Status answers of a device in a run: the transport raises, a non-JSON
\* body, success false, or success with a list of points.
FullPoints ==
  << [code |-> "va_temperature", value |-> Num(235)],
     [code |-> "va_humidity",    value |-> Num(455)] >>
TempOnlyPoints == << [code |-> "temp_current", value |-> Num(23)] >>
NullHumidityPoints ==
  << [code |-> "temperature",    value |-> Num(23)],
     [code |-> "humidity",       value |-> Num(45)],
     [code |-> "humidity_value", value |-> Null] >>

StatusResponses ==
  { [kind |-> "raise",   success |-> FALSE, result |-> << >>],
    [kind |-> "nonjson", success |-> FALSE, result |-> << >>],
    [kind |-> "json",    success |-> FALSE, result |-> << >>],
    [kind |-> "json",    success |-> TRUE,  result |-> FullPoints],
    [kind |-> "json",    success |-> TRUE,  result |-> TempOnlyPoints],
    [kind |-> "json",    success |-> TRUE,  result |-> NullHumidityPoints] }

\* ------------------------------------------------------------ file system
Days == 1 .. MaxDay

\* A file name is head ++ YYYYMMDD (when date > 0) ++ tail.
\* line 217-218: f"TROFICDORD{today}.csv"
CsvName(day) == [head |-> "TROFICDORD", date |-> day, tail |-> ".csv"]
ManifestName == [head |-> "manifest", date |-> 0, tail |-> ".json"]

\* Files somebody else left in the output directory.
ForeignFiles ==
  { [head |-> "TROFICDORD", date |-> 0, tail |-> "-copy.csv"],
    [head |-> "TROFICDORD", date |-> 0, tail |-> ".txt"],
    [head |-> "notes",      date |-> 0, tail |-> ".csv"] }

\* line 227: f.startswith('TROFICDORD') and f.endswith('.csv')
IsCsvName(f) == f.head = "TROFICDORD" /\ f.tail \in {".csv", "-copy.csv"}

\* Python's string order (code points) on the names of the model:
\* 'T' < 'm' < 'n' for the heads; after an equal head, '-' < '.' < digits,
\* ".csv" < ".json" < ".txt", and equal-width dates sort as numbers.
HeadRank(h) == CASE h = "TROFICDORD" -> 1 [] h = "manifest" -> 2 [] OTHER -> 3
TailRank(t) == CASE t = "-copy.csv" -> 1 [] t = ".csv" -> 2 [] t = ".json" -> 3 [] OTHER -> 4

NameLess(a, b) ==
  \/ HeadRank(a.head) < HeadRank(b.head)
  \/ /\ a.head = b.head
     /\ \/ a.date = 0 /\ b.date > 0
        \/ a.date = 0 /\ b.date = 0 /\ TailRank(a.tail) < TailRank(b.tail)
        \/ a.date > 0 /\ b.date > 0 /\ a.date < b.date
        \/ a.date > 0 /\ a.date = b.date /\ TailRank(a.tail) < TailRank(b.tail)

\* sorted(): ascending, by repeatedly taking the least name
RECURSIVE SortedSeq(_)
SortedSeq(S) ==
  IF S = {} THEN << >>
  ELSE LET m == CHOOSE x \in S : \A y \in S \ {x} : NameLess(x, y)
       IN  << m >> \o SortedSeq(S \ {m})

\* line 227: sorted([f for f in os.listdir(outdir) if ...])
ManifestFilesPrefixOnly(listing) == SortedSeq({f \in listing : f.head = "TROFICDORD"})

ManifestFiles(listing) == SortedSeq({f \in listing : IsCsvName(f)})

\* A line of a CSV file is its four cells in column order, by column name.
\* line 152: the header line, whose cells are the column names (strings)
Header ==
  [ kind |-> "header",
    timestamp |-> [date |-> 0, time |-> "timestamp"],
    device_id |-> "device_id",
    temperature_c |-> Str,
    humidity_percent |-> Str ]

\* line 158: one line per reading, the four fields in column order
FormatRow(r) ==
  [ kind |-> "row",
    timestamp |-> r.timestamp,
    device_id |-> r.device_id,
    temperature_c |-> r.temperature_c,
    humidity_percent |-> r.humidity_percent ]

RECURSIVE FormatRows(_)
FormatRows(rows) ==
  IF rows = << >> THEN << >> ELSE << FormatRow(Head(rows)) >> \o FormatRows(Tail(rows))

NoFile == [exists |-> FALSE, lines |-> << >>]

\* lines 151-159: the file after append_to_csv(csv_path, rows)
append_to_csv_always_header(file, rows) ==
  [exists |-> TRUE, lines |-> file.lines \o << Header >> \o FormatRows(rows)]

append_to_csv(file, rows) ==
  [ exists |-> TRUE,
    lines  |-> file.lines \o (IF ~file.exists THEN << Header >> ELSE << >>)
                          \o FormatRows(rows) ]

\* line 194: temp is not None and humidity is not None
BothExtracted(temp, humidity) == temp.t # "null" /\ humidity.t # "null"

\* line 213: if all_readings
HasReadingsAlways(readings) == TRUE

HasReadings(readings) == readings # << >>

\* lines 136-143: send_to_storage: whether a POST is made and whether an
\* exception leaves the function
send_to_storage_uncaught(url, outcome) ==
  [posted |-> url # "", raised |-> url # "" /\ outcome = "raise"]

send_to_storage(url, outcome) == [posted |-> url # "", raised |-> FALSE]

\* line 162: datetime.now().strftime("%Y-%m-%d %H:%M:%S").  The clock of the
\* model counts days; the time of day is not told apart.
Timestamp(clock) == [date |-> clock, time |-> "HH:MM:SS"]

\* line 217: date.today().strftime("%Y%m%d")
Today(clock) == clock

\* line 165: not ACCESS_ID or not ACCESS_KEY
CredentialsMissing(id, key) == id \in {None, ""} \/ key \in {None, ""}


\* -------------------------------------------------- history of the loop
Max(S) == CHOOSE x \in S : \A y \in S : y <= x

\* the position of the last point whose code is in codes, 0 when there is none
LastIndex(points, codes) ==
  LET S == {i \in 1 .. Len(points) : points[i].code \in codes}
  IN  IF S = {} THEN 0 ELSE Max(S)

\* the raw value of that point, null when there is none
LastValue(points, codes) ==
  IF LastIndex(points, codes) = 0 THEN Null ELSE points[LastIndex(points, codes)].value

\* an answer of the status endpoint reported success with a temperature and
\* a humidity that are both not null
Qualifies(answer) ==
  /\ ~answer.raised /\ answer.success
  /\ LastValue(answer.result, TempCodes).t # "null"
  /\ LastValue(answer.result, HumCodes).t # "null"

\* What the answers of a run's status calls were: how many calls were
\* answered, the device positions whose answer qualifies, and whether the
\* last call raised.
NoAnswers == [answered |-> 0, qualified |-> {}, raised |-> FALSE]

Answered(log, position, answer) ==
  [ answered  |-> log.answered + 1,
    qualified |-> log.qualified \cup (IF Qualifies(answer) THEN {position} ELSE {}),
    raised    |-> answer.raised ]

\* ------------------------------------------------------------------ state
VARIABLES
  pc,            \* where the process is: idle, connect, loop, summary, csv, manifest, exited
  runs,          \* processes started so far
  now,           \* the wall clock: the current day
  ACCESS_ID,     \* line 22
  ACCESS_KEY,    \* line 23
  STORAGE_URL,   \* line 34
  token,         \* SimpleTuyaAPI.token, line 41
  timestamp,     \* main's timestamp, line 162
  polled,        \* devices the loop of line 183 has finished with
  all_readings,  \* line 180
  today,         \* main's today, line 217 (0 until it is read)
  outdir,        \* whether the directory "data" exists
  foreign,       \* files of the directory the program never writes
  csv,           \* the daily CSV files, by day: [exists, lines]
  manifest,      \* data/manifest.json: [exists, files]
  exitCode,      \* "running", "0", "1", "2", or "uncaught" (an exception left main)
  \* history of the current run, kept to state the properties
  tokenResp,     \* the answer connect() received
  connectRet,    \* what connect() returned: "unset", "True", "False", "raised"
  requests,      \* the requests issued, in order: [call, held, headers]
  statusLog,     \* history of the loop: [qualified, raised], see Answered
  storage,       \* outcome of the storage POST: "none", "ok", "raise"
  rewrite,       \* outcome of the manifest block: "none", "ok", "raise"
  steps,         \* output steps performed: subset of {"post", "csv", "manifest"}
  before,        \* csv and manifest as they were when the run started
  batches,       \* every batch handed to append_to_csv so far: [day, rows]
  \* the extractor on its own
  xpc, xin, xout

vars == << pc, runs, now, ACCESS_ID, ACCESS_KEY, STORAGE_URL, token, timestamp,
           polled, all_readings, today, outdir, foreign, csv, manifest, exitCode,
           tokenResp, connectRet, requests, statusLog, storage, rewrite, steps,
           before, batches, xpc, xin, xout >>

fsVars  == << outdir, foreign, csv, manifest, batches >>
envVars == << ACCESS_ID, ACCESS_KEY, STORAGE_URL >>
xVars   == << xpc, xin, xout >>

NoManifest == [exists |-> FALSE, files |-> << >>]

\* os.listdir(outdir), line 227
ListDir ==
  {CsvName(d) : d \in {e \in Days : csv[e].exists}} \cup foreign
    \cup (IF manifest.exists THEN {ManifestName} ELSE {})

InitProcess ==
  /\ pc = "idle" /\ runs = 0
  /\ now = 1
  /\ ACCESS_ID = None /\ ACCESS_KEY = None /\ STORAGE_URL = ""
  /\ token = None
  /\ timestamp = Timestamp(now)
  /\ polled = 0 /\ all_readings = << >> /\ today = 0
  /\ exitCode = "running"
  /\ tokenResp = NoResponse /\ connectRet = "unset"
  /\ requests = << >> /\ statusLog = NoAnswers
  /\ storage = "none" /\ rewrite = "none" /\ steps = {}
  /\ batches = << >>

\* The output directory is fresh: absent, or present without any daily CSV
\* and without a manifest (other files may lie in it).
InitFiles ==
  /\ \/ outdir = FALSE /\ foreign = {}
     \/ outdir = TRUE  /\ foreign = ForeignFiles
  /\ csv = [d \in Days |-> NoFile]
  /\ manifest = NoManifest
  /\ before = [csv |-> csv, manifest |-> manifest]

Init ==
  /\ InitProcess /\ InitFiles
  /\ xpc = "off" /\ xin = << >> /\ xout = << Null, Null >>

\* ---------------------------------------------------------------- actions
CredValues == {None, "", "p7k3access"}
UrlValues  == {"", "https://storage.example/hook"}

\* Midnight passes.  The program reads the clock twice, at lines 162 and
\* 217; time that passes anywhere else in a run is seen at the next read, so
\* the step is taken between runs and between the loop and line 217.
Tick ==
  /\ pc \in {"idle", "csv"}
  /\ now < MaxDay
  /\ now' = now + 1
  /\ UNCHANGED << pc, runs, token, timestamp, polled, all_readings, today, exitCode,
                  tokenResp, connectRet, requests, statusLog, storage, rewrite, steps, before >>
  /\ UNCHANGED << fsVars, envVars, xVars >>

\* A process starts: module level (22-34), then main up to line 172.
StartRun ==
  /\ pc = "idle"
  /\ runs < MaxRuns
  /\ runs' = runs + 1
  /\ \E id \in CredValues, key \in CredValues, url \in UrlValues :
       /\ ACCESS_ID' = id /\ ACCESS_KEY' = key /\ STORAGE_URL' = url
       /\ IF CredentialsMissing(id, key)
            THEN pc' = "exited" /\ exitCode' = "1"           \* 165-168
            ELSE pc' = "connect" /\ exitCode' = "running"    \* 172
  /\ timestamp' = Timestamp(now)                              \* 162
  /\ token' = None                                            \* 41
  /\ polled' = 0 /\ all_readings' = << >> /\ today' = 0
  /\ tokenResp' = NoResponse /\ connectRet' = "unset"
  /\ requests' = << >> /\ statusLog' = NoAnswers
  /\ storage' = "none" /\ rewrite' = "none" /\ steps' = {}
  /\ before' = [csv |-> csv, manifest |-> manifest]
  /\ UNCHANGED << now, fsVars, xVars >>

\* main line 174: api.connect(), lines 73-94
Connect ==
  /\ pc = "connect"
  /\ \E resp \in TokenResponses :
       LET r == connect(token, resp) IN
       /\ requests' = Append(requests,
            [call |-> "token", held |-> token,
             headers |-> SignRequest(ACCESS_ID, token, "GET", TokenPath)])
       /\ tokenResp' = resp
       /\ connectRet' = r.ret
       /\ token' = r.token
       /\ CASE r.ret = "True"  -> pc' = "loop" /\ exitCode' = exitCode
            [] r.ret = "False" -> pc' = "exited" /\ exitCode' = "2"        \* 174-176
            [] OTHER           -> pc' = "exited" /\ exitCode' = "uncaught"
  /\ UNCHANGED << runs, now, timestamp, polled, all_readings, today, statusLog,
                  storage, rewrite, steps, before >>
  /\ UNCHANGED << fsVars, envVars, xVars >>

\* One iteration of the loop of lines 183-206.
FetchDevice ==
  /\ pc = "loop"
  /\ \E resp \in StatusResponses :
       LET device_id       == DEVICE_IDS[polled + 1]
           status_response == get(resp)
           th              == extract_temp_humidity(status_response.result)
           reading         == [timestamp |-> timestamp, device_id |-> device_id,
                               temperature_c |-> th[1], humidity_percent |-> th[2]]
       IN
       /\ requests' = Append(requests,
            [call |-> "status", held |-> token,
             headers |-> SignRequest(ACCESS_ID, token, "GET", StatusPath(device_id))])
       /\ statusLog' = Answered(statusLog, polled + 1, status_response)
       /\ IF status_response.raised
            THEN /\ pc' = "exited" /\ exitCode' = "uncaught"      \* 99: requests.get raises
                 /\ UNCHANGED << polled, all_readings >>
            ELSE /\ polled' = polled + 1
                 /\ pc' = IF polled' = Len(DEVICE_IDS) THEN "summary" ELSE "loop"
                 /\ exitCode' = exitCode
                 /\ all_readings' =
                      IF ~status_response.success THEN all_readings            \* 188-190
                      ELSE IF BothExtracted(th[1], th[2])                       \* 194
                        THEN Append(all_readings, reading)                      \* 195-201
                        ELSE all_readings                                       \* 203-204
  /\ UNCHANGED << runs, now, token, timestamp, today, tokenResp, connectRet,
                  storage, rewrite, steps, before >>
  /\ UNCHANGED << fsVars, envVars, xVars >>

\* lines 238-241: no readings, nothing is written
NothingToWrite ==
  /\ pc = "summary"
  /\ ~HasReadings(all_readings)
  /\ pc' = "exited" /\ exitCode' = "0"
  /\ UNCHANGED << runs, now, token, timestamp, polled, all_readings, today,
                  tokenResp, connectRet, requests, statusLog, storage, rewrite, steps, before >>
  /\ UNCHANGED << fsVars, envVars, xVars >>

\* lines 213-214: send_to_storage(all_readings), lines 136-143
SendToStorage ==
  /\ pc = "summary"
  /\ HasReadings(all_readings)
  /\ \E outcome \in {"ok", "raise"} :
       LET s == send_to_storage(STORAGE_URL, outcome) IN
       /\ storage' = IF s.posted THEN outcome ELSE "none"
       /\ steps' = IF s.posted THEN steps \cup {"post"} ELSE steps
       /\ IF s.raised
            THEN pc' = "exited" /\ exitCode' = "uncaught"
            ELSE pc' = "csv" /\ exitCode' = exitCode
  /\ UNCHANGED << runs, now, token, timestamp, polled, all_readings, today,
                  tokenResp, connectRet, requests, statusLog, rewrite, before >>
  /\ UNCHANGED << fsVars, envVars, xVars >>

\* lines 217-223: the file name from today's date, ensure_dir, append_to_csv
WriteCsv ==
  /\ pc = "csv"
  /\ today' = Today(now)                                           \* 217
  /\ outdir' = TRUE                                                \* 220, 145-147
  /\ csv' = [csv EXCEPT ![today'] = append_to_csv(@, all_readings)] \* 222
  /\ batches' = Append(batches, [day |-> today', rows |-> all_readings])
  /\ steps' = steps \cup {"csv"}
  /\ pc' = "manifest"
  /\ UNCHANGED << runs, now, token, timestamp, polled, all_readings, exitCode,
                  tokenResp, connectRet, requests, statusLog, storage, rewrite,
                  before, foreign, manifest >>
  /\ UNCHANGED << envVars, xVars >>

\* lines 226-241: the manifest is rewritten from the listing, or the block
\* raises before it writes (caught, 230-231); then return 0
UpdateManifest ==
  /\ pc = "manifest"
  /\ \/ /\ manifest' = [exists |-> TRUE, files |-> ManifestFiles(ListDir)]   \* 227-229
        /\ rewrite' = "ok"
        /\ steps' = steps \cup {"manifest"}
     \/ /\ manifest' = manifest                                               \* 230-231
        /\ rewrite' = "raise"
        /\ steps' = steps
  /\ pc' = "exited" /\ exitCode' = "0"                                  \* 241
  /\ UNCHANGED << runs, now, token, timestamp, polled, all_readings, today,
                  tokenResp, connectRet, requests, statusLog, storage, before,
                  outdir, foreign, csv, batches >>
  /\ UNCHANGED << envVars, xVars >>

\* line 244: exit(main()); the process and what it held are gone.
ProcessExit ==
  /\ pc = "exited"
  /\ pc' = "idle"
  /\ ACCESS_ID' = None /\ ACCESS_KEY' = None /\ STORAGE_URL' = ""
  /\ token' = None
  /\ timestamp' = Timestamp(1)
  /\ polled' = 0 /\ all_readings' = << >> /\ today' = 0
  /\ exitCode' = "running"
  /\ tokenResp' = NoResponse /\ connectRet' = "unset"
  /\ requests' = << >> /\ statusLog' = NoAnswers
  /\ storage' = "none" /\ rewrite' = "none" /\ steps' = {}
  /\ before' = [csv |-> csv, manifest |-> manifest]
  /\ UNCHANGED << runs, now, fsVars, xVars >>

Next ==
  \/ Tick
  \/ StartRun
  \/ Connect
  \/ FetchDevice
  \/ NothingToWrite
  \/ SendToStorage
  \/ WriteCsv
  \/ UpdateManifest
  \/ ProcessExit

Spec == Init /\ [][Next]_vars


\* ------------------------------------------------- the extractor on its own
XCodes  == TempCodes \cup HumCodes \cup {"battery_state"}
XValues == {Num(n) : n \in {-150, -60, -50, 50, 51, 100, 101, 455}} \cup {Null, Str}
XPoints == [code : XCodes, value : XValues]

SeqsUpTo(S, n) == UNION {[1 .. k -> S] : k \in 0 .. n}

InitExtract ==
  /\ InitProcess
  /\ outdir = FALSE /\ foreign = {}
  /\ csv = [d \in Days |-> NoFile]
  /\ manifest = NoManifest
  /\ before = [csv |-> csv, manifest |-> manifest]
  /\ xpc = "in"
  /\ xin \in SeqsUpTo(XPoints, MaxLen)
  /\ xout = << Null, Null >>

\* line 192: temp, humidity = extract_temp_humidity(status_response["result"])
Extract ==
  /\ xpc = "in"
  /\ xout' = extract_temp_humidity(xin)
  /\ xpc' = "out"
  /\ UNCHANGED << pc, runs, now, token, timestamp, polled, all_readings, today,
                  exitCode, tokenResp, connectRet, requests, statusLog, storage,
                  rewrite, steps, before, xin >>
  /\ UNCHANGED << fsVars, envVars >>

NextExtract == Extract

SpecExtract == InitExtract /\ [][NextExtract]_vars

\* ================================================================ properties
ReturnedTrue == connectRet = "True"
GoodTokenAnswer ==
  tokenResp.kind = "json" /\ tokenResp.success /\ tokenResp.has_token

\* C1: connect() returns True only on a successful answer that holds a token,
\* and then stores that token; on every other answer of the token call (the
\* transport raises, non-JSON body, unsuccessful status, success without a
\* token) it returns False and leaves the token unset, and ends no other way.
C1_ConnectFailsClosed ==
  connectRet # "unset" =>
    /\ ReturnedTrue => GoodTokenAnswer /\ token = tokenResp.access_token
    /\ ~GoodTokenAnswer => connectRet = "False" /\ token = None

StatusCalls == {i \in 1 .. Len(requests) : requests[i].call = "status"}
TokenCalls  == {i \in 1 .. Len(requests) : requests[i].call = "token"}

\* C2: a run ends with exit code 1 exactly when a credential is missing or
\* empty (and then no request was made), with 2 exactly when both are present
\* and connect failed (and then no status call and no output step), with 0
\* exactly when the device loop ran to completion; it ends in no other way.
C2_ThreeOutcomes ==
  pc = "exited" =>
    /\ exitCode \in {"0", "1", "2"}
    /\ exitCode = "1" <=> CredentialsMissing(ACCESS_ID, ACCESS_KEY)
    /\ exitCode = "1" => requests = << >>
    /\ exitCode = "2" <=> ~CredentialsMissing(ACCESS_ID, ACCESS_KEY) /\ ~ReturnedTrue
    /\ exitCode = "2" => StatusCalls = {} /\ steps = {} /\ rewrite = "none"
    /\ exitCode = "0" <=> polled = Len(DEVICE_IDS)

QualifiedUpTo(n) == {i \in statusLog.qualified : i <= n}

\* The batch is the subsequence of the device list, in order and with one
\* Reading per device, of the devices answered so far whose answer qualifies.
BatchOfQualifiedAnswers ==
  pc # "idle" =>
    /\ statusLog.answered = polled + (IF statusLog.raised THEN 1 ELSE 0)
    /\ Len(all_readings) = Cardinality(QualifiedUpTo(polled))
    /\ \A k \in 1 .. Len(all_readings) :
         /\ \E i \in QualifiedUpTo(polled) :
              /\ all_readings[k].device_id = DEVICE_IDS[i]
              /\ Cardinality(QualifiedUpTo(i)) = k
         /\ all_readings[k].timestamp = timestamp

\* C3: after the device loop the batch is the subsequence of the device list,
\* in order and with one Reading per device, of the devices whose answer
\* reported success with both values not null; a device whose status fetch
\* failed, was unsuccessful or was incomplete adds no Reading and never stops
\* the remaining devices from being polled: once connected, a run ends only
\* after every device was polled.
C3_BatchIsQualifiedSubsequence ==
  /\ BatchOfQualifiedAnswers
  /\ pc = "summary" => polled = Len(DEVICE_IDS)
  /\ (pc = "exited" /\ ReturnedTrue) => polled = Len(DEVICE_IDS)

RECURSIVE RowsOfDay(_, _)
RowsOfDay(bs, d) ==
  IF bs = << >> THEN << >>
  ELSE (IF Head(bs).day = d THEN FormatRows(Head(bs).rows) ELSE << >>)
         \o RowsOfDay(Tail(bs), d)

RunsOfDay(d) == {i \in 1 .. Len(batches) : batches[i].day = d}

\* C4: starting from a fresh directory, a day's CSV file is the header line
\* followed by the lines of every run that wrote on that day, in run order and
\* in batch order, whatever the number of such runs.
C4_OneHeaderThenRows ==
  /\ \A d \in Days :
       /\ csv[d].exists <=> RunsOfDay(d) # {}
       /\ csv[d].exists => csv[d].lines = << Header >> \o RowsOfDay(batches, d)
       /\ ~csv[d].exists => csv[d].lines = << >>
  /\ (pc = "exited" /\ polled = Len(DEVICE_IDS) /\ all_readings # << >>) =>
       /\ batches # << >>
       /\ batches[Len(batches)] = [day |-> today, rows |-> all_readings]

C4_Witness ==
  \E d \in Days :
    /\ Cardinality(RunsOfDay(d)) = 2
    /\ Len(csv[d].lines) >= 4
    /\ pc = "exited"

\* C5: a run whose loop ends with no Reading performs no output step (no
\* POST, no CSV file created or changed, manifest untouched) and exits with 0.
C5_NoReadingsNoOutput ==
  /\ all_readings = << >> /\ pc # "idle" =>
       /\ steps = {} /\ storage = "none" /\ rewrite = "none"
       /\ csv = before.csv /\ manifest = before.manifest
  /\ (pc = "exited" /\ polled = Len(DEVICE_IDS) /\ all_readings = << >>) =>
       exitCode = "0"

C5_Witness ==
  /\ pc = "exited" /\ polled = Len(DEVICE_IDS) /\ all_readings = << >>
  /\ STORAGE_URL # ""
  /\ exitCode = "0"
  /\ batches # << >>

\* C6: when the storage POST raises in a run with a Reading, the run still
\* appends the whole batch to the day's file, still goes through the manifest
\* block and still exits with 0.
C6_StorageFailureIsContained ==
  /\ storage = "raise" => pc \in {"csv", "manifest", "exited"} /\ exitCode # "uncaught"
  /\ (storage = "raise" /\ pc = "exited") =>
       /\ exitCode = "0"
       /\ "csv" \in steps /\ rewrite # "none"
       /\ batches[Len(batches)] = [day |-> today, rows |-> all_readings]
       /\ LET lines == csv[today].lines
              n     == Len(all_readings)
          IN  /\ Len(lines) > n
              /\ SubSeq(lines, Len(lines) - n + 1, Len(lines)) = FormatRows(all_readings)
       /\ rewrite = "ok" => manifest.files = ManifestFiles(ListDir)

C6_Witness ==
  storage = "raise" /\ pc = "exited" /\ exitCode = "0" /\ Len(all_readings) >= 2

\* the manifest lists, in ascending order and once each, the files of the
\* directory with the prefix TROFICDORD and the suffix .csv
ManifestMatchesListing ==
  /\ manifest.exists
  /\ \A i, j \in 1 .. Len(manifest.files) :
       i < j => NameLess(manifest.files[i], manifest.files[j])
  /\ {manifest.files[i] : i \in 1 .. Len(manifest.files)} = {f \in ListDir : IsCsvName(f)}
  /\ \E i \in 1 .. Len(manifest.files) : manifest.files[i] = CsvName(today)

ProducedOutput == pc = "exited" /\ polled = Len(DEVICE_IDS) /\ all_readings # << >>

NormalTemp(v) ==
  IF v.t = "num" /\ (v.v > 50 \/ v.v < -50) THEN [t |-> "num", v |-> v.v, d |-> 10] ELSE v
NormalHum(v) ==
  IF v.t = "num" /\ v.v > 100 THEN [t |-> "num", v |-> v.v, d |-> 10] ELSE v

\* C8: for every list of points the extractor returns, for each quantity, the
\* normalised value of the last point with a code of that quantity (null when
\* there is none, the value itself when it is null or not a number), where a
\* temperature is divided by 10 when its absolute value exceeds 50 and a
\* humidity when it exceeds 100.
C8_LastMatchingPointWins ==
  xpc = "out" =>
    /\ xout[1] = NormalTemp(LastValue(xin, TempCodes))
    /\ xout[2] = NormalHum(LastValue(xin, HumCodes))

C8_Witness ==
  /\ xpc = "out" /\ Len(xin) = 2
  /\ xin[1] = [code |-> "temp_current", value |-> Num(-60)]
  /\ xin[2] = [code |-> "temperature", value |-> Null]
  /\ xout[1] = Null

\* C9: in a run the token is acquired at most once and before any data call:
\* the token request is the first request and is signed with an empty token,
\* every status GET is issued with the token held and is signed with exactly
\* the token connect() stored, and nothing after connect() changes the token.
C9_TokenDiscipline ==
  /\ Cardinality(TokenCalls) <= 1
  /\ \A i \in TokenCalls :
       /\ i = 1
       /\ requests[i].held = None
       /\ requests[i].headers.access_token = ""
       /\ requests[i].headers.sign[2] = ""
  /\ \A i \in StatusCalls :
       /\ 1 \in TokenCalls /\ i > 1
       /\ ReturnedTrue
       /\ requests[i].held # None
       /\ requests[i].held = tokenResp.access_token
       /\ requests[i].headers.access_token = tokenResp.access_token
       /\ requests[i].headers.sign[2] = tokenResp.access_token
  /\ ReturnedTrue => token = tokenResp.access_token /\ token \in Tokens
  /\ ~ReturnedTrue => token = None

C9_Witness ==
  /\ pc = "summary"
  /\ Len(requests) = 1 + Len(DEVICE_IDS)
  /\ token \in Tokens /\ token # ""

\* C10: every data row of a daily CSV file carries a timestamp whose date is
\* the date in the file's name.
C10_RowDateIsFileDate ==
  \A d \in Days : \A k \in 1 .. Len(csv[d].lines) :
    csv[d].lines[k].kind = "row" => csv[d].lines[k].timestamp.date = d

====
